---- MODULE Spec2Model ----
(***************************************************************************)
(* sheessh: remote file management over SSH/SFTP (src/src/sheessh/sheessh.py) *)
(*                                                                         *)
(* A string is a sequence of one-character strings.  A remote or local     *)
(* filesystem is a function from paths (sequences of component names) to   *)
(* nodes; the empty path is the root directory.  Every library function is *)
(* an operator from the filesystem(s) and its arguments to an outcome: the *)
(* filesystems it leaves, the exception it raises (or "none"), the value   *)
(* it returns and the commands it ran on the Remote Executor, in order.    *)
(***************************************************************************)
EXTENDS Integers, Sequences, FiniteSets, TLC

VARIABLES fs, lfs, pc, call, exc, ret, log, fs0, lfs0

vars == <<fs, lfs, pc, call, exc, ret, log, fs0, lfs0>>

(***************************************************************************)
(* Bounds of the model                                                     *)
(***************************************************************************)
\* most components of a path given as an argument or present at the start
MaxDepth == 2
\* most trailing slashes written after a path argument
MaxTrail == 2
\* most nodes of the remote filesystem at the start, besides / and the login directory
MaxNodes == 3
\* most nodes of the local filesystem at the start, besides /, the working and the home directory
MaxLocal == 1

\* most commands another session runs on the host while a call is in progress
MaxOther == 1

(***************************************************************************)
(* Strings                                                                 *)
(***************************************************************************)
SL == "/"

Str1(c) == <<c>>

\* the component names the arguments are built from
Names == {Str1("a"), Str1("b")}

TarExt == <<".", "t", "a", "r">>

\* str.rfind("/") + 1: the index of the last slash, 0 when there is none
RFind(s) ==
    LET I == {i \in 1..Len(s) : s[i] = SL}
    IN IF I = {} THEN 0 ELSE CHOOSE i \in I : \A j \in I : j <= i

AllSlash(s) == \A i \in 1..Len(s) : s[i] = SL

\* str.rstrip("/")
RECURSIVE RStrip(_)
RStrip(s) ==
    IF s # <<>> /\ s[Len(s)] = SL THEN RStrip(SubSeq(s, 1, Len(s) - 1)) ELSE s

\* s[-1] == "/"
EndsSlash(s) == s # <<>> /\ s[Len(s)] = SL

\* str.split("/"): the pieces between slashes, empty ones kept
RECURSIVE Split(_)
Split(s) ==
    LET I == {i \in 1..Len(s) : s[i] = SL}
    IN IF I = {} THEN <<s>>
       ELSE LET i == CHOOSE k \in I : \A j \in I : k <= j
            IN <<SubSeq(s, 1, i - 1)>> \o Split(SubSeq(s, i + 1, Len(s)))

\* "/".join(parts)
RECURSIVE Join(_)
Join(parts) ==
    IF parts = <<>> THEN <<>>
    ELSE IF Len(parts) = 1 THEN parts[1]
    ELSE parts[1] \o <<SL>> \o Join(Tail(parts))

\* list[:-2]
DropLast2(parts) == SubSeq(parts, 1, Len(parts) - 2)

\* the non-empty pieces of a split
NonEmpty(parts) == SelectSeq(parts, LAMBDA c : c # <<>>)

\* posixpath.dirname
Dirname(p) ==
    LET head == SubSeq(p, 1, RFind(p))
    IN IF head # <<>> /\ ~AllSlash(head) THEN RStrip(head) ELSE head

\* posixpath.basename
Basename(p) == SubSeq(p, RFind(p) + 1, Len(p))

\* posixpath.normpath: the components with "", "." dropped and ".." resolved
RECURSIVE NormComps(_, _, _)
NormComps(parts, acc, abs) ==
    IF parts = <<>> THEN acc
    ELSE LET c == Head(parts)
             dd == <<".", ".">>
         IN IF c = <<>> \/ c = <<".">> THEN NormComps(Tail(parts), acc, abs)
            ELSE IF c # dd \/ (~abs /\ acc = <<>>)
                      \/ (acc # <<>> /\ acc[Len(acc)] = dd)
                 THEN NormComps(Tail(parts), Append(acc, c), abs)
            ELSE IF acc # <<>>
                 THEN NormComps(Tail(parts), SubSeq(acc, 1, Len(acc) - 1), abs)
            ELSE NormComps(Tail(parts), acc, abs)

Normpath(p) ==
    LET initial == IF p # <<>> /\ p[1] = SL
                   THEN (IF Len(p) >= 2 /\ p[2] = SL /\ ~(Len(p) >= 3 /\ p[3] = SL)
                         THEN 2 ELSE 1)
                   ELSE 0
        body == Join(NormComps(Split(p), <<>>, initial > 0))
        out == [i \in 1..initial |-> SL] \o body
    IN IF out = <<>> THEN <<".">> ELSE out

(***************************************************************************)
(* Filesystems                                                             *)
(***************************************************************************)
\* the directory a relative remote path starts from (the login directory)
Cwd == <<Str1("h")>>

DirNode == [dir |-> TRUE, data |-> <<>>]

\* a regular file; data tags the content, <<>> is the empty content (size 0)
FileNode(d) == [dir |-> FALSE, data |-> d]

Parent(p) == SubSeq(p, 1, Len(p) - 1)

IsPrefix(p, q) == Len(p) <= Len(q) /\ SubSeq(q, 1, Len(p)) = p

IsDirAt(f, p) == p \in DOMAIN f /\ f[p].dir

IsFileAt(f, p) == p \in DOMAIN f /\ ~f[p].dir

\* the paths at or below p
Under(f, p) == {q \in DOMAIN f : IsPrefix(p, q)}

Children(f, p) == {q \in DOMAIN f : Len(q) = Len(p) + 1 /\ IsPrefix(p, q)}

RmTree(f, p) == [q \in DOMAIN f \ Under(f, p) |-> f[q]]

PutNode(f, p, n) == [q \in DOMAIN f \cup {p} |-> IF q = p THEN n ELSE f[q]]

\* q with its prefix src replaced by dst
Rebase(q, src, dst) == dst \o SubSeq(q, Len(src) + 1, Len(q))

\* f with a copy of the tree at src laid over dst
Graft(f, src, dst) ==
    LET new == {Rebase(q, src, dst) : q \in Under(f, src)}
    IN [q \in DOMAIN f \cup new |->
           IF q \in new THEN f[Rebase(q, dst, src)] ELSE f[q]]

\* every node but the root has a directory as its parent
WellFormed(f) ==
    /\ IsDirAt(f, <<>>)
    /\ \A p \in DOMAIN f : p # <<>> => IsDirAt(f, Parent(p))

\* the path a path string names: absolute from /, relative from the login directory
Resolve(s) == (IF s # <<>> /\ s[1] = SL THEN <<>> ELSE Cwd) \o NonEmpty(Split(s))

\* what a path string names: "none", "file" or "dir" (a trailing slash names only a directory)
Kind(f, s) ==
    LET p == Resolve(s)
    IN IF p \notin DOMAIN f THEN "none"
       ELSE IF f[p].dir THEN "dir"
       ELSE IF EndsSlash(s) THEN "none"
       ELSE "file"

(***************************************************************************)
(* The remote shell commands the library composes (host.run).  Each gives  *)
(* [ok, fs]: ok is FALSE when the command exits non-zero, which host.run   *)
(* turns into UnexpectedExit.                                              *)
(***************************************************************************)
ShOk(f) == [ok |-> TRUE, fs |-> f]

ShFail(f) == [ok |-> FALSE, fs |-> f]

\* test -e {path}: with no operand, test sees the one word "-e" and succeeds
ShTestE(f, s) == s = <<>> \/ Kind(f, s) # "none"

\* test -f {path}
ShTestF(f, s) == s = <<>> \/ Kind(f, s) = "file"

\* test -d {path}
ShTestD(f, s) == s = <<>> \/ Kind(f, s) = "dir"

\* mkdir -p {path}
ShMkdirP(f, s) ==
    LET p == Resolve(s)
        pre == {SubSeq(p, 1, i) : i \in 0..Len(p)}
    IN IF s = <<>> \/ \E q \in pre : IsFileAt(f, q) THEN ShFail(f)
       ELSE ShOk([q \in DOMAIN f \cup pre |-> IF q \in DOMAIN f THEN f[q] ELSE DirNode])

\* a touch that empties the file it finds: a faulty variant
ShTouchTrunc(f, s) ==
    LET p == Resolve(s)
    IN IF s = <<>> \/ EndsSlash(s) \/ ~IsDirAt(f, Parent(p)) THEN ShFail(f)
       ELSE IF IsDirAt(f, p) THEN ShOk(f)
       ELSE ShOk(PutNode(f, p, FileNode(<<>>)))

\* touch {path}
ShTouch(f, s) ==
    LET p == Resolve(s)
    IN IF s = <<>> THEN ShFail(f)
       ELSE IF p \in DOMAIN f
            THEN (IF ~f[p].dir /\ EndsSlash(s) THEN ShFail(f) ELSE ShOk(f))
       ELSE IF EndsSlash(s) \/ ~IsDirAt(f, Parent(p)) THEN ShFail(f)
       ELSE ShOk(PutNode(f, p, FileNode(<<>>)))

\* where mv and cp write: into dest when dest is a directory, else at dest
Target(f, sp, d) ==
    IF Kind(f, d) = "dir" /\ sp # <<>> THEN Append(Resolve(d), sp[Len(sp)]) ELSE Resolve(d)

\* dest cannot be written: a file named with a trailing slash, or no parent directory
BadDest(f, sk, d) ==
    LET dp == Resolve(d)
    IN /\ Kind(f, d) # "dir"
       /\ \/ d = <<>>
          \/ IsFileAt(f, dp) /\ EndsSlash(d)
          \/ dp \notin DOMAIN f /\ EndsSlash(d) /\ sk = "file"
          \/ ~IsDirAt(f, Parent(dp))

\* an mv that leaves an existing destination file alone (mv -n): a faulty variant
ShMvNoClobber(f, s, d) ==
    LET sk == Kind(f, s)
        sp == Resolve(s)
        t  == Target(f, sp, d)
    IN IF s = <<>> \/ sk = "none" \/ sp = <<>> \/ BadDest(f, sk, d) THEN ShFail(f)
       ELSE IF IsPrefix(sp, t) THEN ShFail(f)
       ELSE IF t \in DOMAIN f THEN ShOk(f)
       ELSE ShOk(RmTree(Graft(f, sp, t), sp))

\* mv {src} {dest}
ShMv(f, s, d) ==
    LET sk == Kind(f, s)
        sp == Resolve(s)
        t  == Target(f, sp, d)
    IN IF s = <<>> \/ sk = "none" \/ sp = <<>> \/ BadDest(f, sk, d) THEN ShFail(f)
       ELSE IF IsPrefix(sp, t) THEN ShFail(f)
       ELSE IF t \in DOMAIN f /\ (f[t].dir # f[sp].dir \/ Children(f, t) # {})
            THEN ShFail(f)
       ELSE ShOk(RmTree(Graft(RmTree(f, t), sp, t), sp))

\* cp {src} {dest}
ShCp(f, s, d) ==
    LET sk == Kind(f, s)
        sp == Resolve(s)
        t  == Target(f, sp, d)
    IN IF s = <<>> \/ sk # "file" \/ BadDest(f, sk, d) THEN ShFail(f)
       ELSE IF t = sp \/ IsDirAt(f, t) THEN ShFail(f)
       ELSE ShOk(PutNode(f, t, f[sp]))

\* cp -r {src} {dest}; a directory copied into itself fails (its partial copy is not kept)
ShCpR(f, s, d) ==
    LET sk == Kind(f, s)
        sp == Resolve(s)
        t  == Target(f, sp, d)
    IN IF sk # "dir" THEN ShCp(f, s, d)
       ELSE IF sp = <<>> \/ BadDest(f, sk, d) \/ IsPrefix(sp, t) \/ IsFileAt(f, t)
            THEN ShFail(f)
       ELSE ShOk(Graft(f, sp, t))

\* rm {path}
ShRm(f, s) ==
    IF s # <<>> /\ Kind(f, s) = "file" THEN ShOk(RmTree(f, Resolve(s))) ELSE ShFail(f)

\* rm -rf {path}: an absent path is no error; / is refused
ShRmRf(f, s) ==
    IF s = <<>> \/ Kind(f, s) = "none" THEN ShOk(f)
    ELSE IF Resolve(s) = <<>> THEN ShFail(f)
    ELSE ShOk(RmTree(f, Resolve(s)))

\* rm -rf {path}/*: the glob names the entries not starting with a dot
ShRmRfGlob(f, s) ==
    LET p == Resolve(s)
        hit == IF IsDirAt(f, p) THEN {q \in Children(f, p) : q[Len(q)][1] # "."} ELSE {}
        gone == UNION {Under(f, q) : q \in hit}
    IN ShOk([q \in DOMAIN f \ gone |-> f[q]])

\* truncate --size 0 {path}
ShTruncate(f, s) ==
    LET p == Resolve(s)
    IN IF s = <<>> \/ IsDirAt(f, p) \/ EndsSlash(s) \/ ~IsDirAt(f, Parent(p)) THEN ShFail(f)
       ELSE ShOk(PutNode(f, p, FileNode(<<>>)))

\* the content of the archive of the directory at p
TarData(p) == <<TarExt>> \o p

\* tar -a -cf {tar_path} -C {dir_path} .
ShTar(f, tp, dp) ==
    LET t == Resolve(tp)
    IN IF tp = <<>> \/ EndsSlash(tp) \/ IsDirAt(f, t) \/ ~IsDirAt(f, Parent(t))
          \/ Kind(f, dp) # "dir"
       THEN ShFail(f)
       ELSE ShOk(PutNode(f, t, FileNode(TarData(Resolve(dp)))))

(***************************************************************************)
(* Outcomes of a library call                                              *)
(***************************************************************************)
RNone == [t |-> "none", b |-> FALSE, s |-> <<>>, size |-> 0, is_dir |-> "unset"]

RBool(v) == [RNone EXCEPT !.t = "bool", !.b = v]

RStr(v) == [RNone EXCEPT !.t = "str", !.s = v]

\* the dictionary of the info functions (last_modified is not modelled)
RInfo(path, n) == [RNone EXCEPT !.t = "info", !.s = path, !.size = n]

Ok(f, r, lg) == [fs |-> f, exc |-> "none", ret |-> r, log |-> lg]

Raise(f, e, lg) == [fs |-> f, exc |-> e, ret |-> RNone, log |-> lg]

\* the outcome o of a step taken after the commands lg
After(lg, o) == [o EXCEPT !.log = lg \o o.log]

\* host.run(cmd) of a mutating command whose result is sh: UnexpectedExit when it fails
Run(cmd, sh) ==
    IF sh.ok THEN Ok(sh.fs, RNone, <<cmd>>) ELSE Raise(sh.fs, "UnexpectedExit", <<cmd>>)

\* the size stat and du report: that of the content, summed over a directory's files
SizeAt(f, p) == Len(f[p].data)

RECURSIVE SumSizes(_, _)
SumSizes(f, S) ==
    IF S = {} THEN 0
    ELSE LET q == CHOOSE x \in S : TRUE IN SizeAt(f, q) + SumSizes(f, S \ {q})

(***************************************************************************)
(* Creation and probes                                                     *)
(***************************************************************************)
remote_mkdir(f, path) == Run(<<"mkdir -p", path>>, ShMkdirP(f, path))

\* touch_remote that makes the directories but never runs touch: a faulty variant
touch_remote_dirs_only(f, path) == remote_mkdir(f, Dirname(path))

touch_remote(f, path) ==
    LET m == remote_mkdir(f, Dirname(path))
    IN IF m.exc # "none" THEN m
       ELSE After(m.log, Run(<<"touch", path>>, ShTouch(m.fs, path)))

remote_path_exists(f, path) == Ok(f, RBool(ShTestE(f, path)), <<<<"test -e", path>>>>)

remote_file_exists(f, path) == Ok(f, RBool(ShTestF(f, path)), <<<<"test -f", path>>>>)

remote_dir_exists(f, path) == Ok(f, RBool(ShTestD(f, path)), <<<<"test -d", path>>>>)

\* remote_is_dir answering False for an absent path instead of raising: a faulty variant
remote_is_dir_quiet(f, path) ==
    LET e == remote_path_exists(f, path)
    IN After(e.log, Ok(f, RBool(ShTestD(f, path)), <<<<"test -d", path>>>>))

remote_is_dir(f, path) ==
    LET e == remote_path_exists(f, path)
    IN IF e.ret.b
       THEN After(e.log, Ok(f, RBool(ShTestD(f, path)), <<<<"test -d", path>>>>))
       ELSE Raise(f, "FileNotFoundError", e.log)

(***************************************************************************)
(* Metadata queries                                                        *)
(***************************************************************************)
\* stat -c "%s %Y" "{path}" and stat -c "%Y" "{path}"
ShStat(f, path) ==
    IF Kind(f, path) # "none"
    THEN Ok(f, RInfo(path, SizeAt(f, Resolve(path))), <<<<"stat", path>>>>)
    ELSE Raise(f, "UnexpectedExit", <<<<"stat", path>>>>)

\* du -sb {path}
ShDu(f, path) ==
    IF Kind(f, path) # "none"
    THEN Ok(f, RInfo(path, SumSizes(f, Under(f, Resolve(path)))), <<<<"du -sb", path>>>>)
    ELSE Raise(f, "UnexpectedExit", <<<<"du -sb", path>>>>)

\* remote_file_info without the directory test: a faulty variant
remote_file_info_any(f, path) ==
    LET e == remote_path_exists(f, path)
    IN IF e.ret.b THEN After(e.log, ShStat(f, path))
       ELSE Raise(f, "FileNotFoundError", e.log)

remote_file_info(f, path) ==
    LET e == remote_path_exists(f, path)
        d == remote_is_dir(f, path)
    IN IF e.ret.b
       THEN IF d.exc # "none" THEN After(e.log, d)
            ELSE IF ~d.ret.b THEN After(e.log \o d.log, ShStat(f, path))
            ELSE Raise(f, "FileNotFoundError", e.log \o d.log)
       ELSE Raise(f, "FileNotFoundError", e.log)

remote_dir_info(f, path) ==
    LET e == remote_path_exists(f, path)
        d == remote_is_dir(f, path)
        du == ShDu(f, path)
        st == ShStat(f, path)
    IN IF e.ret.b
       THEN IF d.exc # "none" THEN After(e.log, d)
            ELSE IF d.ret.b
                 THEN IF du.exc # "none" THEN After(e.log \o d.log, du)
                      ELSE IF st.exc # "none" THEN After(e.log \o d.log \o du.log, st)
                      ELSE Ok(f, du.ret, e.log \o d.log \o du.log \o st.log)
            ELSE Raise(f, "FileNotFoundError", e.log \o d.log)
       ELSE Raise(f, "FileNotFoundError", e.log)

\* data["is_dir"] = v on the dictionary an info function returned
Tagged(o, v) == IF o.exc = "none" THEN [o EXCEPT !.ret.is_dir = v] ELSE o

remote_path_info(f, path) ==
    LET e == remote_path_exists(f, path)
        d == remote_is_dir(f, path)
    IN IF e.ret.b
       THEN IF d.exc # "none" THEN After(e.log, d)
            ELSE IF d.ret.b
                 THEN After(e.log \o d.log, Tagged(remote_dir_info(f, path), "true"))
                 ELSE After(e.log \o d.log, Tagged(remote_file_info(f, path), "false"))
       ELSE Raise(f, "FileNotFoundError", e.log)

(***************************************************************************)
(* Rename, move, copy                                                      *)
(***************************************************************************)
rename_remote_file(f, file, new_name, overwrite) ==
    LET e == remote_path_exists(f, file)
        new_path == Dirname(file) \o <<SL>> \o new_name
        x == remote_file_exists(f, new_path)
    IN IF e.ret.b
       THEN IF overwrite
            THEN After(e.log, Run(<<"mv", file, new_path>>, ShMv(f, file, new_path)))
            ELSE IF x.ret.b THEN Raise(f, "FileExistsError", e.log \o x.log)
                 ELSE Ok(f, RNone, e.log \o x.log)
       ELSE Raise(f, "FileNotFoundError", e.log)

\* rename_remote_dir that does not add the missing "/" before it splits: a faulty variant
rename_remote_dir_noslash(f, rdir0, new_name) ==
    LET e == remote_path_exists(f, rdir0)
        rdir == rdir0
        new_path == Join(DropLast2(Split(rdir)) \o <<new_name>>)
        d == remote_dir_exists(f, new_path)
    IN IF e.ret.b
       THEN IF d.ret.b THEN Raise(f, "FileExistsError", e.log \o d.log)
            ELSE After(e.log \o d.log, Run(<<"mv", rdir, new_path>>, ShMv(f, rdir, new_path)))
       ELSE Raise(f, "FileNotFoundError", e.log)

rename_remote_dir(f, rdir0, new_name) ==
    LET e == remote_path_exists(f, rdir0)
        rdir == IF ~EndsSlash(rdir0) THEN rdir0 \o <<SL>> ELSE rdir0
        new_path == Join(DropLast2(Split(rdir)) \o <<new_name>>)
        d == remote_dir_exists(f, new_path)
    IN IF e.ret.b
       THEN IF d.ret.b THEN Raise(f, "FileExistsError", e.log \o d.log)
            ELSE After(e.log \o d.log, Run(<<"mv", rdir, new_path>>, ShMv(f, rdir, new_path)))
       ELSE Raise(f, "FileNotFoundError", e.log)

move_remote_file(f, src, dest, overwrite) ==
    LET s == remote_file_exists(f, src)
        d == remote_file_exists(f, dest)
        t == touch_remote(f, dest)
    IN IF s.ret.b
       THEN IF d.ret.b /\ ~overwrite THEN Raise(f, "FileExistsError", s.log \o d.log)
            ELSE IF t.exc # "none" THEN After(s.log \o d.log, t)
            ELSE After(s.log \o d.log \o t.log,
                       Run(<<"mv", src, dest>>, ShMv(t.fs, src, dest)))
       ELSE Raise(f, "FileNotFoundError", s.log)

copy_remote_file(f, src, dest, overwirte) ==
    LET s == remote_file_exists(f, src)
        d == remote_file_exists(f, dest)
        t == touch_remote(f, dest)
    IN IF s.ret.b
       THEN IF d.ret.b /\ ~overwirte THEN Raise(f, "FileExistsError", s.log \o d.log)
            ELSE IF t.exc # "none" THEN After(s.log \o d.log, t)
            ELSE After(s.log \o d.log \o t.log,
                       Run(<<"cp", src, dest>>, ShCp(t.fs, src, dest)))
       ELSE Raise(f, "FileNotFoundError", s.log)

\* dest with the "/" the directory operations add when it is missing
WithSlash(dest) == IF dest[Len(dest)] # SL THEN dest \o <<SL>> ELSE dest

\* move_remote_dir without the probe of the destination: a faulty variant
move_remote_dir_nocheck(f, src, dest0) ==
    LET dest == WithSlash(dest0)
        s == remote_dir_exists(f, src)
        m == remote_mkdir(f, dest)
    IN IF s.ret.b
       THEN IF m.exc # "none" THEN After(s.log, m)
            ELSE After(s.log \o m.log, Run(<<"mv", src, dest>>, ShMv(m.fs, src, dest)))
       ELSE Raise(f, "FileNotFoundError", s.log)

move_remote_dir(f, src, dest0) ==
    LET dest == WithSlash(dest0)
        s == remote_dir_exists(f, src)
        d == remote_dir_exists(f, dest)
        m == remote_mkdir(f, dest)
    IN IF s.ret.b
       THEN IF d.ret.b THEN Raise(f, "FileExistsError", s.log \o d.log)
            ELSE IF m.exc # "none" THEN After(s.log \o d.log, m)
            ELSE After(s.log \o d.log \o m.log,
                       Run(<<"mv", src, dest>>, ShMv(m.fs, src, dest)))
       ELSE Raise(f, "FileNotFoundError", s.log)

copy_remote_dir(f, src, dest0) ==
    LET dest == WithSlash(dest0)
        s == remote_dir_exists(f, src)
        d == remote_dir_exists(f, dest)
        m == remote_mkdir(f, dest)
    IN IF s.ret.b
       THEN IF d.ret.b THEN Raise(f, "FileExistsError", s.log \o d.log)
            ELSE IF m.exc # "none" THEN After(s.log \o d.log, m)
            ELSE After(s.log \o d.log \o m.log,
                       Run(<<"cp -r", src, dest>>, ShCpR(m.fs, src, dest)))
       ELSE Raise(f, "FileNotFoundError", s.log)

(***************************************************************************)
(* Deletion                                                                *)
(***************************************************************************)
delete_remote_file(f, path) ==
    LET e == remote_file_exists(f, path)
    IN IF e.ret.b THEN After(e.log, Run(<<"rm", path>>, ShRm(f, path)))
       ELSE Raise(f, "FileNotFoundError", e.log)

\* delete_remote_dir that removes first and tests afterwards: a faulty variant
delete_remote_dir_unguarded(f, path) ==
    LET e == remote_dir_exists(f, path)
        r == Run(<<"rm -rf", path>>, ShRmRf(f, path))
    IN IF r.exc # "none" THEN r
       ELSE IF e.ret.b THEN After(r.log, Ok(r.fs, RNone, e.log))
       ELSE Raise(r.fs, "FileNotFoundError", r.log \o e.log)

delete_remote_dir(f, path) ==
    LET e == remote_dir_exists(f, path)
    IN IF e.ret.b THEN After(e.log, Run(<<"rm -rf", path>>, ShRmRf(f, path)))
       ELSE Raise(f, "FileNotFoundError", e.log)

truncate_remote_file(f, path) ==
    LET e == remote_file_exists(f, path)
    IN IF e.ret.b THEN After(e.log, Run(<<"truncate", path>>, ShTruncate(f, path)))
       ELSE Raise(f, "FileNotFoundError", e.log)

delete_remote_dir_content(f, path) ==
    LET e == remote_file_exists(f, path)
    IN IF e.ret.b THEN After(e.log, Run(<<"rm -rf /*", path>>, ShRmRfGlob(f, path)))
       ELSE Raise(f, "FileNotFoundError", e.log)

(***************************************************************************)
(* Archival                                                                *)
(***************************************************************************)
zip_remote_dir(f, dir_path0) ==
    LET e == remote_path_exists(f, dir_path0)
        d == remote_is_dir(f, dir_path0)
        dir_path == WithSlash(dir_path0)
        tar_fname == Basename(Normpath(dir_path)) \o TarExt
        tar_dir == Join(DropLast2(Split(dir_path)))
        tar_path == Join(<<tar_dir, tar_fname>>)
        t == Run(<<"tar", tar_path, dir_path>>, ShTar(f, tar_path, dir_path))
    IN IF ~e.ret.b THEN Raise(f, "FileNotFoundError", e.log)
       ELSE IF d.exc # "none" THEN After(e.log, d)
       ELSE IF ~d.ret.b THEN Raise(f, "FileNotFoundError", e.log \o d.log)
       ELSE IF t.exc # "none" THEN After(e.log \o d.log, t)
       ELSE Ok(t.fs, RStr(tar_path), e.log \o d.log \o t.log)

(***************************************************************************)
(* The local side: os.path, pathlib and the transfers of the connection    *)
(***************************************************************************)
\* the local working directory and the user's home directory
LCwd == <<Str1("w")>>

HomeStr == <<SL, "u">>

Downloads == <<"D", "o", "w", "n", "l", "o", "a", "d", "s">>

\* dest=None
NoneArg == <<"None">>

LResolve(s) == (IF s # <<>> /\ s[1] = SL THEN <<>> ELSE LCwd) \o NonEmpty(Split(s))

LKind(l, s) ==
    LET p == LResolve(s)
    IN IF s = <<>> \/ p \notin DOMAIN l THEN "none"
       ELSE IF l[p].dir THEN "dir"
       ELSE IF EndsSlash(s) THEN "none"
       ELSE "file"

\* the components pathlib keeps: "" and "." are dropped
PathParts(s) == SelectSeq(Split(s), LAMBDA c : c # <<>> /\ c # <<".">>)

\* Path(s).name
PathName(s) ==
    LET c == PathParts(s) IN IF c = <<>> THEN <<>> ELSE c[Len(c)]

\* str(Path(s))
PathStr(s) ==
    LET initial == IF s # <<>> /\ s[1] = SL
                   THEN (IF Len(s) >= 2 /\ s[2] = SL /\ ~(Len(s) >= 3 /\ s[3] = SL)
                         THEN 2 ELSE 1)
                   ELSE 0
        out == [i \in 1..initial |-> SL] \o Join(PathParts(s))
    IN IF out = <<>> THEN <<".">> ELSE out

\* str(Path(a, b)): an absolute b replaces a
PathJoin(a, b) ==
    IF b # <<>> /\ b[1] = SL THEN PathStr(b) ELSE PathStr(a \o <<SL>> \o b)

LMkdirs(l, p) ==
    [q \in DOMAIN l \cup {SubSeq(p, 1, i) : i \in 0..Len(p)} |->
        IF q \in DOMAIN l THEN l[q] ELSE DirNode]

\* host.download(file, dest): conn.get writes the remote file at the local path,
\* making the local directories above it
HostDownload(f, l, file, dest) ==
    LET local == IF EndsSlash(dest) THEN dest \o Basename(file) ELSE dest
        t == LResolve(local)
        up == {SubSeq(t, 1, i) : i \in 0..(Len(t) - 1)}
    IN IF Kind(f, file) # "file" \/ t = <<>> \/ IsDirAt(l, t)
          \/ \E q \in up : IsFileAt(l, q)
       THEN [ok |-> FALSE, lfs |-> l]
       ELSE [ok |-> TRUE, lfs |-> PutNode(LMkdirs(l, Parent(t)), t, f[Resolve(file)])]

\* host.upload(file, dest): conn.put writes the local file at the remote path, or
\* under its own name inside it when the remote path is a directory
HostUpload(f, l, file, dest) ==
    LET t == IF Kind(f, dest) = "dir"
             THEN Resolve(dest) \o <<Basename(file)>> ELSE Resolve(dest)
    IN IF LKind(l, file) # "file" \/ dest = <<>> \/ IsDirAt(f, t)
          \/ (Kind(f, dest) # "dir" /\ EndsSlash(dest)) \/ ~IsDirAt(f, Parent(t))
       THEN [ok |-> FALSE, fs |-> f]
       ELSE [ok |-> TRUE, fs |-> PutNode(f, t, l[LResolve(file)])]

XOk(f, l, r, lg) == [fs |-> f, lfs |-> l, exc |-> "none", ret |-> r, log |-> lg]

XRaise(f, l, e, lg) == [fs |-> f, lfs |-> l, exc |-> e, ret |-> RNone, log |-> lg]

\* the local destination download_file resolves
download_dest(l, rem_file, dest) ==
    IF dest = NoneArg
    THEN PathJoin(PathJoin(HomeStr, Downloads), PathName(rem_file))
    ELSE IF LKind(l, dest) = "none"
         THEN (IF dest[Len(dest)] = SL \/ dest[Len(dest)] = "\\"
               THEN PathJoin(dest, PathName(rem_file)) ELSE dest)
         ELSE (IF LKind(l, dest) = "dir"
               THEN PathJoin(dest, PathName(rem_file)) ELSE dest)

download_file(f, l, rem_file, dest0, overwrite) ==
    LET e == remote_file_exists(f, rem_file)
        dest == download_dest(l, rem_file, dest0)
        g == HostDownload(f, l, rem_file, dest)
        lg == e.log \o <<<<"get", rem_file, dest>>>>
    IN IF e.ret.b
       THEN IF overwrite
            THEN (IF g.ok THEN XOk(f, g.lfs, RNone, lg) ELSE XRaise(f, g.lfs, "IOError", lg))
            ELSE XRaise(f, l, "FileExistsError", e.log)
       ELSE XRaise(f, l, "FileNotFoundError", e.log)

\* the orders in which find may list the entries S
Listings(S) ==
    {o \in [1..Cardinality(S) -> S] : \A i, j \in 1..Cardinality(S) : o[i] = o[j] => i = j}

\* os.path.relpath(remote, rem_path), as components, of the entry q below root
RelPath(q, root) == SubSeq(q, Len(root) + 1, Len(q))

\* the line find prints for the entry of relative path rel
FindLine(rem_path, rel) ==
    IF rel = <<>> THEN rem_path
    ELSE rem_path \o (IF EndsSlash(rem_path) THEN <<>> ELSE <<SL>>) \o Join(rel)

\* os.path.join(dest_path, relative_path); the relative path of the root is "."
LocalJoin(dest_path, rel) ==
    dest_path \o (IF EndsSlash(dest_path) THEN <<>> ELSE <<SL>>)
              \o (IF rel = <<>> THEN <<".">> ELSE Join(rel))

\* os.makedirs(local_subdir, exist_ok=True) for each listed directory, in order
RECURSIVE MakeDirs(_, _, _, _)
MakeDirs(l, dest_path, root, dirs) ==
    IF dirs = <<>> THEN [exc |-> "none", lfs |-> l, log |-> <<>>]
    ELSE LET rel == RelPath(Head(dirs), root)
             t == LResolve(dest_path) \o rel
             cmd == <<"makedirs", LocalJoin(dest_path, rel)>>
             rest == MakeDirs(LMkdirs(l, t), dest_path, root, Tail(dirs))
         IN IF IsFileAt(l, t) THEN [exc |-> "FileExistsError", lfs |-> l, log |-> <<cmd>>]
            ELSE IF \E i \in 0..(Len(t) - 1) : IsFileAt(l, SubSeq(t, 1, i))
                 THEN [exc |-> "NotADirectoryError", lfs |-> l, log |-> <<cmd>>]
            ELSE [rest EXCEPT !.log = <<cmd>> \o rest.log]

\* host.download(remote_file, dest=local_file_path) for each listed file, in order
RECURSIVE GetFiles(_, _, _, _, _, _)
GetFiles(f, l, rem_path, dest_path, root, files) ==
    IF files = <<>> THEN [exc |-> "none", lfs |-> l, log |-> <<>>]
    ELSE LET rel == RelPath(Head(files), root)
             remote_file == FindLine(rem_path, rel)
             local_file_path == LocalJoin(dest_path, rel)
             g == HostDownload(f, l, remote_file, local_file_path)
             cmd == <<"get", remote_file, local_file_path>>
             rest == GetFiles(f, g.lfs, rem_path, dest_path, root, Tail(files))
         IN IF ~g.ok THEN [exc |-> "IOError", lfs |-> l, log |-> <<cmd>>]
            ELSE [rest EXCEPT !.log = <<cmd>> \o rest.log]

\* the local directory download_dir fills
download_dir_dest(rem_path, dest_path) ==
    IF dest_path = NoneArg
    THEN PathJoin(PathJoin(HomeStr, Downloads), Basename(Normpath(rem_path)))
    ELSE dest_path

\* listing is the order in which find lists the entries below rem_path; with no file,
\* "".split("\n") is [""] and os.path.relpath("") raises ValueError
download_dir(f, l, rem_path, dest_path0, listing) ==
    LET d == remote_dir_exists(f, rem_path)
        i == remote_is_dir(f, rem_path)
        root == Resolve(rem_path)
        dest_path == download_dir_dest(rem_path, dest_path0)
        remote_dirs == SelectSeq(listing, LAMBDA q : f[q].dir)
        remote_files == SelectSeq(listing, LAMBDA q : ~f[q].dir)
        mk == MakeDirs(l, dest_path, root, remote_dirs)
        gt == GetFiles(f, mk.lfs, rem_path, dest_path, root, remote_files)
        lg1 == d.log \o i.log \o <<<<"find -type d", rem_path>>>> \o mk.log
        lg2 == lg1 \o <<<<"find -type f", rem_path>>>>
    IN IF ~d.ret.b THEN XRaise(f, l, "FileNotFoundError", d.log)
       ELSE IF i.exc # "none" THEN XRaise(f, l, i.exc, d.log \o i.log)
       ELSE IF ~i.ret.b THEN XRaise(f, l, "FileNotFoundError", d.log \o i.log)
       ELSE IF mk.exc # "none" THEN XRaise(f, mk.lfs, mk.exc, lg1)
       ELSE IF remote_files = <<>> THEN XRaise(f, mk.lfs, "ValueError", lg2)
       ELSE IF gt.exc # "none" THEN XRaise(f, gt.lfs, gt.exc, lg2 \o gt.log)
       ELSE XOk(f, gt.lfs, RNone, lg2 \o gt.log)

\* the remote destination upload_file resolves
upload_dest(file, rem_dest) ==
    IF rem_dest[Len(rem_dest)] = SL
    THEN SubSeq(rem_dest, 1, Len(rem_dest) - 1) \o Basename(file)
    ELSE rem_dest

upload_file(f, l, file, rem_dest0) ==
    LET rem_dest == upload_dest(file, rem_dest0)
        u == HostUpload(f, l, file, rem_dest)
        lg == <<<<"put", file, rem_dest>>>>
    IN IF LKind(l, file) # "none"
       THEN (IF u.ok THEN XOk(u.fs, l, RNone, lg) ELSE XRaise(u.fs, l, "IOError", lg))
       ELSE XRaise(f, l, "FileNotFoundError", <<>>)

(***************************************************************************)
(* Arguments and starting states                                           *)
(***************************************************************************)
\* the sequences of 1..n component names
CompSeqs(n) == UNION {[1..k -> Names] : k \in 1..n}

\* a path string: absolute or relative, its components, its trailing slashes
MkStr(abs, comps, trail) ==
    (IF abs THEN <<SL>> ELSE <<>>) \o Join(comps) \o [i \in 1..trail |-> SL]

\* path strings written with at most n trailing slashes: absolute ones, and names in
\* the login directory
ArgsUpTo(n) ==
    {MkStr(TRUE, c, t) : c \in CompSeqs(MaxDepth), t \in 0..n}
        \cup {MkStr(FALSE, <<m>>, t) : m \in Names, t \in 0..n}

\* every path string given as a remote path
PathArgs == ArgsUpTo(MaxTrail)

\* path strings written without a trailing slash
PlainArgs == ArgsUpTo(0)

\* path strings written with or without one trailing slash
DestArgs == ArgsUpTo(1)

\* local path strings, relative to the working directory
LocalArgs == {MkStr(FALSE, c, t) : c \in CompSeqs(MaxDepth), t \in 0..1}

\* local path strings written without a trailing slash
LocalPlain == {s \in LocalArgs : ~EndsSlash(s)}

\* the filesystem with nothing but the directories base
Bare(base) == [p \in base |-> DirNode]

\* the trees of at most n nodes among cand added to the directories base;
\* a file holds content tagged with its own path
RECURSIVE Trees(_, _, _)
Trees(base, cand, n) ==
    IF n = 0 THEN {Bare(base)}
    ELSE LET T == Trees(base, cand, n - 1)
         IN T \cup UNION {{PutNode(t, p, nd) : nd \in {DirNode, FileNode(p)}} :
                             <<t, p>> \in {x \in T \X cand :
                                              /\ x[2] \notin DOMAIN x[1]
                                              /\ IsDirAt(x[1], Parent(x[2]))}}

\* the remote filesystems a call may find
InitFS ==
    Trees({<<>>, Cwd}, CompSeqs(MaxDepth) \cup {Cwd \o <<n>> : n \in Names}, MaxNodes)

\* the local filesystem with nothing but the working and home directories
LBase == Bare({<<>>, LCwd, <<Tail(HomeStr)>>})

InitCommon ==
    /\ pc = "idle"
    /\ call = [op |-> "none", p1 |-> <<>>, p2 |-> <<>>, flag |-> FALSE]
    /\ exc = "none"
    /\ ret = RNone
    /\ log = <<>>
    /\ fs0 = fs
    /\ lfs0 = lfs

Init ==
    /\ fs \in InitFS
    /\ lfs = LBase
    /\ InitCommon

\* the call c returned (or raised) with outcome o, leaving the local filesystem l
Done(c, o, l) ==
    /\ pc' = "done"
    /\ call' = c
    /\ fs' = o.fs
    /\ lfs' = l
    /\ exc' = o.exc
    /\ ret' = o.ret
    /\ log' = o.log
    /\ UNCHANGED <<fs0, lfs0>>

Call1(op, p) == [op |-> op, p1 |-> p, p2 |-> <<>>, flag |-> FALSE]

Call2(op, p, q, b) == [op |-> op, p1 |-> p, p2 |-> q, flag |-> b]

(***************************************************************************)
(* One action per library function                                         *)
(***************************************************************************)
TouchRemote ==
    /\ pc = "idle"
    /\ \E p \in PathArgs : Done(Call1("touch_remote", p), touch_remote(fs, p), lfs)

RemoteMkdir ==
    /\ pc = "idle"
    /\ \E p \in PathArgs : Done(Call1("remote_mkdir", p), remote_mkdir(fs, p), lfs)

RemotePathExists ==
    /\ pc = "idle"
    /\ \E p \in PathArgs : Done(Call1("remote_path_exists", p), remote_path_exists(fs, p), lfs)

RemoteFileExists ==
    /\ pc = "idle"
    /\ \E p \in PathArgs : Done(Call1("remote_file_exists", p), remote_file_exists(fs, p), lfs)

RemoteDirExists ==
    /\ pc = "idle"
    /\ \E p \in PathArgs : Done(Call1("remote_dir_exists", p), remote_dir_exists(fs, p), lfs)

RemoteIsDir ==
    /\ pc = "idle"
    /\ \E p \in PathArgs : Done(Call1("remote_is_dir", p), remote_is_dir(fs, p), lfs)

RemoteFileInfo ==
    /\ pc = "idle"
    /\ \E p \in PathArgs : Done(Call1("remote_file_info", p), remote_file_info(fs, p), lfs)

RemoteDirInfo ==
    /\ pc = "idle"
    /\ \E p \in PathArgs : Done(Call1("remote_dir_info", p), remote_dir_info(fs, p), lfs)

RemotePathInfo ==
    /\ pc = "idle"
    /\ \E p \in PathArgs : Done(Call1("remote_path_info", p), remote_path_info(fs, p), lfs)

RenameRemoteFile ==
    /\ pc = "idle"
    /\ \E p \in PathArgs, n \in Names, b \in BOOLEAN :
           Done(Call2("rename_remote_file", p, n, b), rename_remote_file(fs, p, n, b), lfs)

RenameRemoteDir ==
    /\ pc = "idle"
    /\ \E p \in PathArgs, n \in Names :
           Done(Call2("rename_remote_dir", p, n, FALSE), rename_remote_dir(fs, p, n), lfs)

MoveRemoteFile ==
    /\ pc = "idle"
    /\ \E p \in PlainArgs, d \in DestArgs, b \in BOOLEAN :
           Done(Call2("move_remote_file", p, d, b), move_remote_file(fs, p, d, b), lfs)

CopyRemoteFile ==
    /\ pc = "idle"
    /\ \E p \in PlainArgs, d \in DestArgs, b \in BOOLEAN :
           Done(Call2("copy_remote_file", p, d, b), copy_remote_file(fs, p, d, b), lfs)

MoveRemoteDir ==
    /\ pc = "idle"
    /\ \E p \in PlainArgs, d \in DestArgs :
           Done(Call2("move_remote_dir", p, d, FALSE), move_remote_dir(fs, p, d), lfs)

CopyRemoteDir ==
    /\ pc = "idle"
    /\ \E p \in PlainArgs, d \in DestArgs :
           Done(Call2("copy_remote_dir", p, d, FALSE), copy_remote_dir(fs, p, d), lfs)

DeleteRemoteFile ==
    /\ pc = "idle"
    /\ \E p \in PathArgs : Done(Call1("delete_remote_file", p), delete_remote_file(fs, p), lfs)

DeleteRemoteDir ==
    /\ pc = "idle"
    /\ \E p \in PathArgs : Done(Call1("delete_remote_dir", p), delete_remote_dir(fs, p), lfs)

TruncateRemoteFile ==
    /\ pc = "idle"
    /\ \E p \in PathArgs :
           Done(Call1("truncate_remote_file", p), truncate_remote_file(fs, p), lfs)

DeleteRemoteDirContent ==
    /\ pc = "idle"
    /\ \E p \in PathArgs :
           Done(Call1("delete_remote_dir_content", p), delete_remote_dir_content(fs, p), lfs)

ZipRemoteDir ==
    /\ pc = "idle"
    /\ \E p \in PathArgs : Done(Call1("zip_remote_dir", p), zip_remote_dir(fs, p), lfs)

DownloadFile ==
    /\ pc = "idle"
    /\ \E p \in PlainArgs, d \in LocalArgs \cup {NoneArg}, b \in BOOLEAN :
           LET o == download_file(fs, lfs, p, d, b)
           IN Done(Call2("download_file", p, d, b), o, o.lfs)

DownloadDir ==
    /\ pc = "idle"
    /\ \E p \in PathArgs, d \in LocalArgs \cup {NoneArg} :
         \E listing \in Listings(IF Kind(fs, p) = "dir" THEN Under(fs, Resolve(p)) ELSE {}) :
           LET o == download_dir(fs, lfs, p, d, listing)
           IN Done(Call2("download_dir", p, d, FALSE), o, o.lfs)

UploadFile ==
    /\ pc = "idle"
    /\ \E p \in LocalPlain, d \in DestArgs :
           LET o == upload_file(fs, lfs, p, d)
           IN Done(Call2("upload_file", p, d, FALSE), o, o.lfs)

(***************************************************************************)
(* move_remote_file command by command: each host.run is a step of its own, *)
(* and another session on the same host may run a command between two steps *)
(***************************************************************************)
InFlight == {"mrf_test_dest", "mrf_mkdir", "mrf_touch", "mrf_mv"}

\* the content a file written by the other session holds
OtherData == <<Str1("o")>>

\* the commands of lg the other session ran
OtherCmds(lg) == SelectSeq(lg, LAMBDA c : c[1] = "other")

\* the running call goes to position npc after the command cmd left the filesystem f
Step(npc, e, f, cmd) ==
    /\ pc' = npc
    /\ exc' = e
    /\ fs' = f
    /\ log' = Append(log, cmd)
    /\ UNCHANGED <<lfs, call, ret, fs0, lfs0>>

\* if remote_file_exists(host, src, hide=hide):
MrfTestSrc ==
    /\ pc = "idle"
    /\ \E p \in PlainArgs, d \in DestArgs, b \in BOOLEAN :
          /\ call' = Call2("move_remote_file", p, d, b)
          /\ log' = <<<<"test -f", p>>>>
          /\ IF ShTestF(fs, p)
             THEN pc' = "mrf_test_dest" /\ exc' = "none"
             ELSE pc' = "done" /\ exc' = "FileNotFoundError"
          /\ UNCHANGED <<fs, lfs, ret, fs0, lfs0>>

\* if remote_file_exists(host, dest, hide=True): if not overwrite: raise
MrfTestDest ==
    /\ pc = "mrf_test_dest"
    /\ IF ShTestF(fs, call.p2) /\ ~call.flag
       THEN Step("done", "FileExistsError", fs, <<"test -f", call.p2>>)
       ELSE Step("mrf_mkdir", "none", fs, <<"test -f", call.p2>>)

\* touch_remote(host, dest): remote_mkdir(host, os.path.dirname(path))
MrfMkdir ==
    /\ pc = "mrf_mkdir"
    /\ LET sh == ShMkdirP(fs, Dirname(call.p2))
           cmd == <<"mkdir -p", Dirname(call.p2)>>
       IN IF sh.ok THEN Step("mrf_touch", "none", sh.fs, cmd)
          ELSE Step("done", "UnexpectedExit", sh.fs, cmd)

\* touch_remote(host, dest): host.run(f"touch {path}")
MrfTouch ==
    /\ pc = "mrf_touch"
    /\ LET sh == ShTouch(fs, call.p2)
           cmd == <<"touch", call.p2>>
       IN IF sh.ok THEN Step("mrf_mv", "none", sh.fs, cmd)
          ELSE Step("done", "UnexpectedExit", sh.fs, cmd)

\* host.run(f"mv {src} {dest}")
MrfMv ==
    /\ pc = "mrf_mv"
    /\ LET sh == ShMv(fs, call.p1, call.p2)
           cmd == <<"mv", call.p1, call.p2>>
       IN Step("done", IF sh.ok THEN "none" ELSE "UnexpectedExit", sh.fs, cmd)

\* the paths the commands of the call read or write: its source, its destination and
\* the directories above them
Touched(c) ==
    {SubSeq(p, 1, i) : <<p, i>> \in {x \in {Resolve(c.p1), Resolve(c.p2)} \X (1..(MaxDepth + 1)) :
                                         x[2] <= Len(x[1])}}

\* another session writes a regular file on the host while the call is in progress
\* (at a path the call depends on: a write elsewhere changes nothing for the call)
OtherWrites ==
    /\ pc \in InFlight
    /\ Len(OtherCmds(log)) < MaxOther
    /\ \E q \in Touched(call) :
          /\ IsDirAt(fs, Parent(q))
          /\ ~IsDirAt(fs, q)
          /\ fs' = PutNode(fs, q, FileNode(OtherData))
          /\ log' = Append(log, <<"other", MkStr(TRUE, q, 0)>>)
          /\ UNCHANGED <<lfs, pc, call, exc, ret, fs0, lfs0>>

NextRace ==
    \/ MrfTestSrc
    \/ MrfTestDest
    \/ MrfMkdir
    \/ MrfTouch
    \/ MrfMv
    \/ OtherWrites

\* existence and type probes, metadata queries
NextProbe ==
    \/ RemotePathExists
    \/ RemoteFileExists
    \/ RemoteDirExists
    \/ RemoteIsDir
    \/ RemoteFileInfo
    \/ RemoteDirInfo
    \/ RemotePathInfo

\* creation and deletion
NextLife ==
    \/ TouchRemote
    \/ RemoteMkdir
    \/ DeleteRemoteFile
    \/ DeleteRemoteDir
    \/ DeleteRemoteDirContent

\* rename within a directory
NextRename ==
    \/ RenameRemoteFile
    \/ RenameRemoteDir

\* move and copy of directories
NextMove ==
    \/ MoveRemoteDir
    \/ CopyRemoteDir

\* move and copy of regular files
NextFile ==
    \/ MoveRemoteFile
    \/ CopyRemoteFile

\* the operations that take a source and a destination
NextTwoPath ==
    \/ NextRename
    \/ NextMove
    \/ NextFile

\* the operations guarded by a probe of their target
NextGuard ==
    \/ NextTwoPath
    \/ DeleteRemoteFile
    \/ DeleteRemoteDir
    \/ TruncateRemoteFile
    \/ ZipRemoteDir

\* archival
NextArchive ==
    \/ ZipRemoteDir

\* transfers between the local and the remote filesystem
NextXfer ==
    \/ DownloadFile
    \/ DownloadDir
    \/ UploadFile

Next ==
    \/ NextProbe
    \/ NextLife
    \/ TruncateRemoteFile
    \/ NextRename
    \/ NextMove
    \/ NextFile
    \/ NextArchive
    \/ NextXfer
    \/ NextRace

\* any one call of the library on a remote filesystem, with an empty local one
Spec == Init /\ [][Next]_vars

SpecProbe == Init /\ [][NextProbe]_vars

SpecLife == Init /\ [][NextLife]_vars

SpecRename == Init /\ [][NextRename]_vars

SpecMove == Init /\ [][NextMove]_vars

SpecFile == Init /\ [][NextFile]_vars

SpecTwoPath == Init /\ [][NextTwoPath]_vars

SpecGuard == Init /\ [][NextGuard]_vars

SpecArchive == Init /\ [][NextArchive]_vars

\* one call of move_remote_file, command by command, beside another session
SpecRace == Init /\ [][NextRace]_vars

\* the local filesystems a transfer may find
InitLFS == Trees({<<>>, LCwd, <<Tail(HomeStr)>>}, {LCwd \o c : c \in CompSeqs(MaxDepth)}, MaxLocal)

InitXfer ==
    /\ fs \in InitFS
    /\ lfs \in InitLFS
    /\ InitCommon

SpecXfer == InitXfer /\ [][NextXfer]_vars

TypeOK == WellFormed(fs) /\ WellFormed(lfs)

(***************************************************************************)
(* Properties                                                              *)
(***************************************************************************)
\* the commands that only probe or read the remote filesystem
ReadCmds == {"test -e", "test -f", "test -d", "stat", "du -sb"}

\* the call ran a command other than a probe
Mutates(lg) == \E i \in 1..Len(lg) : lg[i][1] \notin ReadCmds

\* the call ran the command c
Ran(lg, c) == \E i \in 1..Len(lg) : lg[i][1] = c

Returned(op) == pc = "done" /\ call.op = op

\* the path of the entry called name beside the entry file names
SiblingOf(file, name) == Append(Parent(Resolve(file)), name)

\* C1: rename_remote_file(A, nameOf(B), overwrite=False) with A and B regular files
\* of one directory raises FileExistsError, runs no mutating command and leaves the
\* remote filesystem, so A and B with their contents, as it was.
C1_RenameKeepsBoth ==
    (/\ Returned("rename_remote_file")
     /\ ~call.flag
     /\ Kind(fs0, call.p1) = "file"
     /\ IsFileAt(fs0, SiblingOf(call.p1, call.p2))
     /\ SiblingOf(call.p1, call.p2) # Resolve(call.p1))
    => (exc = "FileExistsError" /\ ~Mutates(log) /\ fs = fs0)

\* C2: rename_remote_file runs mv whenever the source exists, except when overwrite is
\* False and the destination exists; with overwrite=False and the sibling path absent
\* the source file ends absent and the sibling path holds its content.
C2_RenameMovesUnlessCollision ==
    (Returned("rename_remote_file") /\ Kind(fs0, call.p1) # "none")
    => LET src == Resolve(call.p1)
           dst == SiblingOf(call.p1, call.p2)
       IN /\ ~(~call.flag /\ dst \in DOMAIN fs0) => Ran(log, "mv")
          /\ (~call.flag /\ IsFileAt(fs0, src) /\ dst \notin DOMAIN fs0)
                => (/\ exc = "none"
                    /\ src \notin DOMAIN fs
                    /\ IsFileAt(fs, dst)
                    /\ fs[dst].data = fs0[src].data)

\* C3: move_remote_dir and copy_remote_dir of an existing directory onto a destination
\* that is an existing directory (written with or without a trailing slash) raise
\* FileExistsError before any mkdir, mv or cp: the remote filesystem is unchanged.
C3_DirCollisionRefused ==
    (/\ pc = "done"
     /\ call.op \in {"move_remote_dir", "copy_remote_dir"}
     /\ Kind(fs0, call.p1) = "dir"
     /\ IsDirAt(fs0, Resolve(call.p2)))
    => (exc = "FileExistsError" /\ ~Mutates(log) /\ fs = fs0)

\* a move onto another existing directory, named without a trailing slash, was refused
C3_Witness ==
    /\ Returned("move_remote_dir")
    /\ Kind(fs0, call.p1) = "dir"
    /\ IsDirAt(fs0, Resolve(call.p2))
    /\ Resolve(call.p2) # Resolve(call.p1)
    /\ ~EndsSlash(call.p2)
    /\ exc = "FileExistsError"

\* C4: remote_path_exists(P) is True right after touch_remote(P) or remote_mkdir(P)
\* succeeds, and False right after delete_remote_file(P) or delete_remote_dir(P) succeeds.
C4_ExistsFollowsCreateDelete ==
    (pc = "done" /\ exc = "none")
    => /\ call.op \in {"touch_remote", "remote_mkdir"}
             => remote_path_exists(fs, call.p1).ret.b
       /\ call.op \in {"delete_remote_file", "delete_remote_dir"}
             => ~remote_path_exists(fs, call.p1).ret.b

\* touch_remote created a file that was absent, below a directory that was absent too
C4_Witness ==
    /\ Returned("touch_remote")
    /\ exc = "none"
    /\ Kind(fs0, call.p1) = "none"
    /\ Parent(Resolve(call.p1)) \notin DOMAIN fs0
    /\ Kind(fs, call.p1) = "file"

\* C5: for an absent path, a regular file and a directory alike, at most one of
\* remote_file_info and remote_dir_info succeeds and the other raises FileNotFoundError;
\* remote_path_info succeeds exactly when one of them does, returns that one's result
\* tagged is_dir=True for a directory and is_dir=False for a file, and raises
\* FileNotFoundError only when the path is absent.
C5_InfoByKind ==
    (pc = "done" /\ call.op \in {"remote_file_info", "remote_dir_info", "remote_path_info"})
    => LET k  == Kind(fs0, call.p1)
           fi == remote_file_info(fs0, call.p1)
           di == remote_dir_info(fs0, call.p1)
           fine == \/ call.op = "remote_file_info" /\ k = "file"
                   \/ call.op = "remote_dir_info" /\ k = "dir"
                   \/ call.op = "remote_path_info" /\ k # "none"
       IN /\ exc = (IF fine THEN "none" ELSE "FileNotFoundError")
          /\ ~(fi.exc = "none" /\ di.exc = "none")
          /\ (fi.exc = "none" \/ di.exc = "none") <=> k # "none"
          /\ (call.op = "remote_path_info" /\ exc = "none")
                => /\ ret.is_dir = (IF k = "dir" THEN "true" ELSE "false")
                   /\ [ret EXCEPT !.is_dir = "unset"] = (IF k = "dir" THEN di.ret ELSE fi.ret)
          /\ (call.op # "remote_path_info" /\ exc = "none") => ret.is_dir = "unset"
          /\ fs = fs0

\* remote_path_info described a directory that holds a file
C5_Witness ==
    /\ Returned("remote_path_info")
    /\ exc = "none"
    /\ ret.is_dir = "true"
    /\ ret.size > 0

\* C6: delete_remote_dir_content on an existing directory does not raise, removes every
\* entry below the directory and keeps the directory; it raises FileNotFoundError only
\* when the directory does not exist.
C6_DirContentDeleted ==
    Returned("delete_remote_dir_content")
    => LET d == Resolve(call.p1)
       IN /\ exc = "FileNotFoundError" => Kind(fs0, call.p1) # "dir"
          /\ Kind(fs0, call.p1) = "dir"
                => (exc = "none" /\ IsDirAt(fs, d) /\ Under(fs, d) = {d})

\* C7: download_file with overwrite=False of an existing remote file raises
\* FileExistsError when the resolved local destination file exists, and otherwise
\* (resolved destination absent) transfers the file there without raising.
C7_DownloadNoOverwrite ==
    (Returned("download_file") /\ ~call.flag /\ Kind(fs0, call.p1) = "file")
    => LET dest == download_dest(lfs0, call.p1, call.p2)
           t == LResolve(dest)
       IN /\ LKind(lfs0, dest) = "file" => exc = "FileExistsError"
          /\ t \notin DOMAIN lfs0
                => (/\ exc = "none"
                    /\ IsFileAt(lfs, t)
                    /\ lfs[t].data = fs0[Resolve(call.p1)].data)

\* C8: upload_file of an existing local file uploads to rem_dest + basename when
\* rem_dest ends in "/", and to rem_dest unchanged otherwise.
C8_UploadDestination ==
    (Returned("upload_file") /\ LKind(lfs0, call.p1) = "file")
    => log = <<<<"put", call.p1,
                 IF EndsSlash(call.p2) THEN call.p2 \o Basename(call.p1) ELSE call.p2>>>>

\* C9: zip_remote_dir of an existing directory, however its path is written, returns
\* and writes <parent of the directory>/<basename>.tar, a sibling of the directory,
\* and leaves the entries of the directory unchanged.
C9_ZipBesideDirectory ==
    (Returned("zip_remote_dir") /\ Kind(fs0, call.p1) = "dir")
    => LET d == Resolve(call.p1)
           t == Append(Parent(d), d[Len(d)] \o TarExt)
       IN /\ exc = "none"
          /\ ret.t = "str"
          /\ Resolve(ret.s) = t
          /\ IsFileAt(fs, t)
          /\ Under(fs, d) = Under(fs0, d)
          /\ \A q \in Under(fs0, d) : fs[q] = fs0[q]

Probes == {"remote_path_exists", "remote_file_exists", "remote_dir_exists", "remote_is_dir"}

\* what each probe answers about a path that names k
ProbeAnswer(op, k) ==
    IF op = "remote_path_exists" THEN k # "none"
    ELSE IF op = "remote_file_exists" THEN k = "file"
    ELSE k = "dir"

\* C10 as stated: every probe, remote_is_dir included, returns a boolean for every path
\* state, never raises and leaves the remote filesystem unchanged.
C10_ProbesNeverRaise ==
    (pc = "done" /\ call.op \in Probes)
    => (exc = "none" /\ ret.t = "bool" /\ fs = fs0)

\* C10 amended: remote_path_exists, remote_file_exists and remote_dir_exists return a
\* boolean for every path state and never raise; remote_is_dir returns a boolean for a
\* path that exists and raises FileNotFoundError for an absent one; all four run only
\* test commands and leave the remote filesystem unchanged.
C10_ProbesAmended ==
    (pc = "done" /\ call.op \in Probes)
    => LET k == Kind(fs0, call.p1)
       IN /\ fs = fs0
          /\ ~Mutates(log)
          /\ IF call.op = "remote_is_dir" /\ k = "none"
             THEN exc = "FileNotFoundError"
             ELSE exc = "none" /\ ret = RBool(ProbeAnswer(call.op, k))

\* remote_is_dir raised for an absent path
C10_Witness ==
    /\ Returned("remote_is_dir")
    /\ Kind(fs0, call.p1) = "none"
    /\ exc = "FileNotFoundError"

TwoPathOps ==
    {"rename_remote_file", "rename_remote_dir", "move_remote_file", "move_remote_dir",
     "copy_remote_file", "copy_remote_dir"}

TestCmds == {"test -e", "test -f", "test -d"}

MoveCmds == {"mv", "cp", "cp -r"}

\* a test command on the path the string s names ran before the i-th command
ProbedBefore(lg, i, s) ==
    \E j \in 1..(i - 1) : lg[j][1] \in TestCmds /\ Resolve(lg[j][2]) = Resolve(s)

\* C11: in every call of a two-path operation, overwrite=True included, a probe of the
\* source and a probe of the destination both run before the mv or cp is issued.
C11_ProbesBeforeMutation ==
    (pc = "done" /\ call.op \in TwoPathOps)
    => \A i \in 1..Len(log) :
          log[i][1] \in MoveCmds
             => (ProbedBefore(log, i, log[i][2]) /\ ProbedBefore(log, i, log[i][3]))

\* the commands of lg that are not probes
MutatingCmds(lg) == SelectSeq(lg, LAMBDA c : c[1] \notin ReadCmds)

\* the file the string s names can be created: no regular file stands on the way to it
Creatable(f, s) ==
    LET p == Resolve(s)
    IN /\ \A i \in 0..(Len(p) - 1) : ~IsFileAt(f, SubSeq(p, 1, i))
       /\ ~(EndsSlash(s) /\ IsFileAt(f, p))

\* C12: move_remote_file and copy_remote_file of an existing regular file raise
\* FileExistsError, with no mkdir, touch, mv or cp, exactly when the destination is a
\* regular file and overwrite is disabled; in every other case they run mkdir -p of the
\* destination's parent, touch of the destination and the mv or cp, in this order
\* (stated for the destinations no regular file keeps from being created).
C12_FileMoveSequence ==
    (/\ pc = "done"
     /\ call.op \in {"move_remote_file", "copy_remote_file"}
     /\ Kind(fs0, call.p1) = "file"
     /\ Creatable(fs0, call.p2))
    => LET refused == Kind(fs0, call.p2) = "file" /\ ~call.flag
           cmd == IF call.op = "move_remote_file" THEN "mv" ELSE "cp"
       IN /\ exc = "FileExistsError" <=> refused
          /\ refused => (~Mutates(log) /\ fs = fs0)
          /\ ~refused => MutatingCmds(log) = << <<"mkdir -p", Dirname(call.p2)>>,
                                                <<"touch", call.p2>>,
                                                <<cmd, call.p1, call.p2>> >>

C14_DownloadDirMirrors ==
    (Returned("download_dir") /\ call.p2 = NoneArg /\ Kind(fs0, call.p1) = "dir")
    => LET root == Resolve(call.p1)
           base == <<Tail(HomeStr), Downloads, root[Len(root)]>>
       IN /\ exc = "none"
          /\ Under(lfs, base) = {base \o RelPath(q, root) : q \in Under(fs0, root)}
          /\ \A q \in Under(fs0, root) :
                LET t == base \o RelPath(q, root)
                IN t \in DOMAIN lfs /\ lfs[t] = fs0[q]
          /\ \A i, j \in 1..Len(log) :
                (log[i][1] = "makedirs" /\ log[j][1] = "get") => i < j

GuardedOps ==
    TwoPathOps \cup {"delete_remote_file", "delete_remote_dir", "truncate_remote_file",
                     "zip_remote_dir"}

\* the kinds of target the guard of an operation lets through
GuardKinds(op) ==
    IF op \in {"rename_remote_file", "rename_remote_dir"} THEN {"file", "dir"}
    ELSE IF op \in {"move_remote_file", "copy_remote_file", "delete_remote_file",
                    "truncate_remote_file"} THEN {"file"}
    ELSE {"dir"}

\* C15: a guarded remote operation that raises FileNotFoundError, its target being absent
\* or of the wrong kind, has run only probes: no mkdir, touch, mv, cp, rm, truncate or tar,
\* and the remote filesystem is as it was before the call.
C15_NotFoundLeavesNoTrace ==
    (pc = "done" /\ call.op \in GuardedOps)
    => /\ exc = "FileNotFoundError" <=> Kind(fs0, call.p1) \notin GuardKinds(call.op)
       /\ exc = "FileNotFoundError"
             => (/\ fs = fs0
                 /\ \A i \in 1..Len(log) : log[i][1] \in TestCmds)

\* move_remote_file refused a source that is a directory
C15_Witness ==
    /\ Returned("move_remote_file")
    /\ Kind(fs0, call.p1) = "dir"
    /\ exc = "FileNotFoundError"
    /\ log # <<>>

\* the mv commands of lg
MvCmds(lg) == SelectSeq(lg, LAMBDA c : c[1] = "mv")

\* C16: rename_remote_dir of an existing directory, written with or without a trailing
\* slash, aims at <parent of rdir>/<new_name> in both forms: with a directory there it
\* raises FileExistsError and runs no mv, otherwise it runs exactly one mv from rdir to
\* that path, which moves the tree when nothing stands there.
C16_RenameDirTarget ==
    (/\ Returned("rename_remote_dir")
     /\ call.p1 \in DestArgs
     /\ Kind(fs0, call.p1) = "dir")
    => LET src == Resolve(call.p1)
           dst == SiblingOf(call.p1, call.p2)
           mvs == MvCmds(log)
       IN IF IsDirAt(fs0, dst)
          THEN exc = "FileExistsError" /\ mvs = <<>> /\ fs = fs0
          ELSE /\ Len(mvs) = 1
               /\ Resolve(mvs[1][2]) = src
               /\ Resolve(mvs[1][3]) = dst
               /\ ~EndsSlash(mvs[1][3])
               /\ ProbedBefore(log, Len(log), mvs[1][3])
               /\ dst \notin DOMAIN fs0
                     => (/\ exc = "none"
                         /\ Under(fs, src) = {}
                         /\ \A q \in Under(fs0, src) :
                               fs[Rebase(q, src, dst)] = fs0[q])

\* a directory holding an entry, written without a trailing slash, was renamed
C16_Witness ==
    /\ Returned("rename_remote_dir")
    /\ ~EndsSlash(call.p1)
    /\ Kind(fs0, call.p1) = "dir"
    /\ Children(fs0, Resolve(call.p1)) # {}
    /\ exc = "none"
    /\ IsDirAt(fs, SiblingOf(call.p1, call.p2))
    /\ Resolve(call.p1) \notin DOMAIN fs

\* C17: move_remote_file and copy_remote_file with overwrite disabled never replace or
\* destroy a regular file that was there before the call, other than the source, whether
\* the destination is absent, a regular file, or a directory holding a file named like
\* the source.
C17_NoOverwriteKeepsFiles ==
    (/\ pc = "done"
     /\ call.op \in {"move_remote_file", "copy_remote_file"}
     /\ ~call.flag)
    => \A q \in DOMAIN fs0 :
          (IsFileAt(fs0, q) /\ q # Resolve(call.p1)) => (q \in DOMAIN fs /\ fs[q] = fs0[q])

\* the other session wrote the path the string s names after the i-th command of the call
\* and before its last
WroteBetween(lg, i, s) ==
    \E j \in (i + 1)..(Len(lg) - 1) : lg[j][1] = "other" /\ Resolve(lg[j][2]) = Resolve(s)

\* C18: the probe and the mv of move_remote_file are separate commands.  With no other
\* session in between, a call with overwrite=False that found its destination absent
\* runs as the call taken as a whole and destroys no file but the source; when another
\* session creates the destination after the probe found it absent (and leaves the source
\* alone), the mv that follows replaces that file with the source.
C18_GuardNotAtomic ==
    (Returned("move_remote_file") /\ ~call.flag /\ Kind(fs0, call.p2) = "none")
    => LET alone == move_remote_file(fs0, call.p1, call.p2, call.flag)
           src == Resolve(call.p1)
           dst == Resolve(call.p2)
       IN /\ OtherCmds(log) = <<>>
                => (/\ fs = alone.fs /\ exc = alone.exc /\ log = alone.log
                    /\ \A q \in DOMAIN fs0 :
                          (IsFileAt(fs0, q) /\ q # src) => (q \in DOMAIN fs /\ fs[q] = fs0[q]))
          /\ (exc = "none" /\ WroteBetween(log, 2, call.p2) /\ ~WroteBetween(log, 0, call.p1))
                => (/\ log[Len(log)] = <<"mv", call.p1, call.p2>>
                    /\ IsFileAt(fs, dst)
                    /\ fs[dst].data = fs0[src].data
                    /\ fs[dst].data # OtherData)

\* the destination probe found nothing, the other session then created the destination
\* file, and the mv replaced it
C18_Witness ==
    /\ Returned("move_remote_file")
    /\ ~call.flag
    /\ exc = "none"
    /\ Kind(fs0, call.p2) = "none"
    /\ log[2] = <<"test -f", call.p2>>
    /\ \E j \in 3..(Len(log) - 1) :
          /\ log[j][1] = "other"
          /\ Resolve(log[j][2]) = Resolve(call.p2)
    /\ log[Len(log)] = <<"mv", call.p1, call.p2>>
    /\ fs[Resolve(call.p2)] = fs0[Resolve(call.p1)]

====
